---- MODULE Spec2Model ----
\* A model of fqsocks' SPDY relay proxy (src/fqsocks/spdy_relay.py) and of its
\* DNS-resolved dynamic proxy (src/dynamic.py):
\*   SpdyClient      one TLS channel to the relay, its dispatch loop, its
\*                   per-stream queues and its flow-control counters;
\*   SpdyRelayProxy  connect/close/refresh and do_forward, one call per
\*                   forwarded client connection.
\*   DynamicProxy    a proxy that delegates to the proxy its DNS TXT record
\*                   names, resolved by resolve_proxy, one greenlet each.
\* SpecTunnel runs one open SpdyClient with its loop and the do_forward calls
\* that share it; SpecForward runs it with its first call and every kind of
\* reply; SpecDispatch runs it on a channel that stays healthy, with the loop
\* greenlet scheduled fairly; SpecConnect runs connect/close/refresh of the
\* proxies; SpecDynamic runs the dynamic proxies and their refresh.
EXTENDS Integers, Sequences, FiniteSets, TLC

\* ---------------------------------------------------------------- bounds

\* frames the peer sends over the tunnel's lifetime
MaxFrames == 2
\* SpdyRelayProxy instances handed to refresh
NumProxies == 2
\* refresh calls
MaxRefresh == 3
\* DynamicProxy.refresh calls
MaxDynamicRefresh == 2

\* ------------------------------------------------------ program constants

\* SpdyClient.__init__: self.window_size = 65536
InitialWindowSize == 65536
\* sys.maxint of a 32-bit build, do_forward's "no content-length" sentinel
MaxInt == 2147483647

\* -------------------------------------------------------------- the frames

\* the do_forward calls made on the tunnel, numbered in the order they start:
\* two, so that two streams share the tunnel
Forwards == {1, 2}

\* spdy_context.next_stream_id of a CLIENT context: 1, 3, 5, ...
StreamIds == {2 * f - 1 : f \in Forwards}

\* len(frame.data) of the data frames the peer sends
DataLens == {16384, 32768}

\* content-length values a reply declares
ContentLengths == {32768}

\* INITIAL_WINDOW_SIZE values a settings frame carries
SettingsWindows == {32768}

\* seq: the frame's place on the wire (history; 0 for a frame sent by us);
\* fin: FLAG_FIN, the frame is the last of its stream
Frame(t, sid, n, st, pseudo, cl, hasCl, win, hasWin) ==
    [seq |-> 0, type |-> t, stream_id |-> sid, data |-> n, status |-> st,
     pseudo |-> pseudo, content_length |-> cl, has_content_length |-> hasCl,
     initial_window |-> win, has_initial_window |-> hasWin, fin |-> FALSE]

\* `frame` with FLAG_FIN set
Fin(frame) == [frame EXCEPT !.fin = TRUE]

DataFrame(sid, n) == Frame("DataFrame", sid, n, "", FALSE, 0, FALSE, 0, FALSE)

\* pseudo: the reply carries :version and :status
SynReply(sid, st, pseudo, cl, hasCl) ==
    Frame("SynReply", sid, 0, st, pseudo, cl, hasCl, 0, FALSE)

RstStream(sid) == Frame("RstStream", sid, 0, "", FALSE, 0, FALSE, 0, FALSE)

Settings(win, hasWin) == Frame("Settings", 0, 0, "", FALSE, 0, FALSE, win, hasWin)

SynStream(sid) == Frame("SynStream", sid, 0, "", FALSE, 0, FALSE, 0, FALSE)

WindowUpdate(sid, delta) ==
    Frame("WindowUpdate", sid, delta, "", FALSE, 0, FALSE, 0, FALSE)

\* the settings frames the peer can send
SettingsFrames ==
    {Settings(0, FALSE)} \cup {Settings(w, TRUE) : w \in SettingsWindows}

\* the length of the data frame that ends a stream
LastDataLens == {16384}

\* what the peer can send on the streams `sids`, every kind of reply included
ReplyFrames(sids) ==
    {DataFrame(s, n) : s \in sids, n \in DataLens}
    \cup {Fin(DataFrame(s, n)) : s \in sids, n \in LastDataLens}
    \cup {SynReply(s, "200", TRUE, 0, FALSE) : s \in sids}
    \cup {SynReply(s, st, TRUE, cl, TRUE) :
            s \in sids, st \in {"200", "304"}, cl \in ContentLengths}
    \cup {SynReply(s, "", FALSE, 0, FALSE) : s \in sids}
    \cup {RstStream(s) : s \in sids}
    \cup SettingsFrames

\* the data and reset frames the peer can send on the streams `sids`
RoutingFrames(sids) ==
    {DataFrame(s, n) : s \in sids, n \in DataLens}
    \cup {RstStream(s) : s \in sids}

\* what the peer can send on the streams `sids`, one kind of reply only
DispatchFrames(sids) ==
    {DataFrame(s, n) : s \in sids, n \in DataLens}
    \cup {SynReply(s, "200", TRUE, cl, TRUE) : s \in sids, cl \in ContentLengths}
    \cup {RstStream(s) : s \in sids}
    \cup SettingsFrames

\* hasattr(frame, 'stream_id'): settings frames carry none
HasStreamId(frame) == frame.type # "Settings"

\* ------------------------------------------------- the dynamic proxies

\* the DynamicProxy instances handed to DynamicProxy.refresh: two, so that
\* their resolve_proxy greenlets interleave
DynamicProxies == {1, 2}

\* A TXT answer is a sequence of characters. A run of letters and digits that
\* nothing below looks into is written as one unit ("http", "8080"), so two
\* answers are the same string exactly if they are the same sequence.
AlnumUnits == {"http", "connect", "socks5", "10", "1", "2", "8080", "3128", "u", "p", "script", "x"}

\* str.isalnum() of one character
isalnum(e) == e \in AlnumUnits

\* 'http-connect', the proxy type resolve_proxy asserts
HttpConnectType == <<"http", "-", "connect">>

\* the type field as the record may carry it: the supported one, the supported
\* one between characters the sanitizer drops, and another type
TxtTypes == {HttpConnectType, <<" ", "http", "<", "-", "connect">>, <<"socks5">>}

\* what follows type:ip:port in the record: a user only (four fields), user
\* and password, both empty, a password with characters the sanitizer drops,
\* and a sixth field
TxtRests ==
    { <<":", "u">>,
      <<":", "u", ":", "p">>,
      <<":", ":">>,
      <<":", "u", ":", "p", "<", "script", ">">>,
      <<":", "u", ":", "p", ":", "x">> }

\* the rdata of the TXT records the resolver may answer with: every type and
\* every rest for one proxy address, and a record that names another proxy
TxtRecords ==
    { t \o <<":", "10", ".", "1", ":", "8080">> \o r : t \in TxtTypes, r \in TxtRests }
        \cup { HttpConnectType \o <<":", "10", ".", "2", ":", "3128", ":", "u", ":", "p">> }

\* what sock.recv and the parsing of its datagram come to: nothing received
\* yet, a TXT answer, socket.timeout after 3 seconds, or a datagram that
\* dpkt.dns.DNS rejects or that has no answer section
NoAnswer == [kind |-> "none", rdata |-> <<>>]
Answers ==
    { [kind |-> "txt", rdata |-> r] : r \in TxtRecords }
        \cup { [kind |-> k, rdata |-> <<>>] : k \in {"timeout", "malformed"} }

\* None, as the value of username, password
NoCredential == <<"None">>

\* delegated_to = None
None ==
    [kind |-> "None", proxy_ip |-> <<>>, proxy_port |-> <<>>,
     username |-> NoCredential, password |-> NoCredential, died |-> FALSE]

\* HttpConnectProxy(proxy_ip, proxy_port, username, password): the concrete
\* proxy bound to ip:port with its optional credentials, alive
HttpConnectProxy(proxy_ip, proxy_port, username, password) ==
    [kind |-> "HttpConnectProxy", proxy_ip |-> proxy_ip, proxy_port |-> proxy_port,
     username |-> username, password |-> password, died |-> FALSE]

\* which proxy a value of delegated_to is: its kind and its address
Named(delegate) == <<delegate.kind, delegate.proxy_ip, delegate.proxy_port>>

\* the protocols a client may ask a proxy for
Protocols == {"HTTP", "HTTPS"}

\* delegate.is_protocol_supported(protocol): a concrete proxy serves the
\* protocols of its kind
DelegateSupports(delegate, protocol) ==
    delegate.kind = "HttpConnectProxy" /\ protocol = "HTTPS"

\* ---------------------------------------------------------------- state

VARIABLES
    \* SpdyClient
    window_size,      \* self.window_size
    current_window,   \* self.current_window
    streams,          \* self.streams: stream id -> queue of frames
    next_stream_id,   \* self.spdy_context.next_stream_id
    wire,             \* frames the peer sent, not yet read from the channel
    incoming,         \* frames decoded by spdy_context, not yet got
    nframes,          \* frames the peer has sent so far
    loop,             \* the greenlet running SpdyClient.loop
    channel,          \* the TLS channel
    sent,             \* frames written to the channel, with the writing task
    decoded,          \* history: the frames got by consume_frames, in order
    delivered,        \* history: the seq of the frames put to each queue
    \* one do_forward call per f \in Forwards
    pc,               \* where the call is
    stream_id,        \* its stream
    remaining_bytes,
    forward_started,  \* client.forward_started
    downstream,       \* payloads written to client.downstream_sock
    fall_backs,       \* calls of client.fall_back
    timed_out,        \* the call's last stream.get raised Empty
    handled,          \* history: the frames the call got from its queue
    \* SpdyRelayProxy instances and the SpdyClients they construct
    died,             \* proxy.died
    spdy_client,      \* proxy.spdy_client: 0 is None, else a client id
    clients,          \* the SpdyClient objects constructed so far
    connect_pc,       \* where each proxy's connect() is
    last_connect,     \* history: how each proxy's last connect() ended
    refresh_pc,       \* refresh: 0 idle, i connecting proxies[i]
    refresh_result,   \* what the last refresh call returned
    refresh_log,      \* history: proxies connect() was called on, this call
    refresh_failed,   \* history: proxies whose connect() failed, this call
    refreshes,        \* refresh calls made
    \* DynamicProxy instances and the resolve_proxy greenlets of a refresh
    delegated_to,     \* proxy.delegated_to
    task,             \* where each proxy's resolve_proxy greenlet is
    answer,           \* history: what the greenlet's sock.recv came to
    old_delegate,     \* history: the proxy delegated_to named when refresh
                      \* was called
    dynamic_pc,       \* DynamicProxy.refresh: idle, joining or returned
    dynamic_refreshes, \* DynamicProxy.refresh calls made
    last_op           \* history: the last call made on a DynamicProxy

tunnelVars ==
    <<window_size, current_window, streams, next_stream_id, wire, incoming,
      nframes, loop, channel, sent, decoded, delivered>>

forwardVars ==
    <<pc, stream_id, remaining_bytes, forward_started, downstream, fall_backs,
      timed_out, handled>>

proxyVars ==
    <<died, spdy_client, clients, connect_pc, last_connect, refresh_pc,
      refresh_result, refresh_log, refresh_failed, refreshes>>

dynamicVars ==
    <<delegated_to, task, answer, old_delegate, dynamic_pc, dynamic_refreshes,
      last_op>>

vars == <<tunnelVars, forwardVars, proxyVars, dynamicVars>>

Proxies == 1..NumProxies

\* SpdyClient.__init__ after the handshake, and a fresh client per forward
InitTunnel ==
    /\ window_size = InitialWindowSize
    /\ current_window = 0
    /\ streams = <<>>
    /\ next_stream_id = 1
    /\ wire = <<>>
    /\ incoming = <<>>
    /\ nframes = 0
    /\ loop = "running"
    /\ channel = "ok"
    /\ sent = <<>>
    /\ decoded = <<>>
    /\ delivered = [s \in StreamIds |-> <<>>]

InitForwards ==
    /\ pc = [f \in Forwards |-> "idle"]
    /\ stream_id = [f \in Forwards |-> 0]
    /\ remaining_bytes = [f \in Forwards |-> MaxInt]
    /\ forward_started = [f \in Forwards |-> FALSE]
    /\ downstream = [f \in Forwards |-> 0]
    /\ fall_backs = [f \in Forwards |-> 0]
    /\ timed_out = [f \in Forwards |-> FALSE]
    /\ handled = [f \in Forwards |-> <<>>]

\* SpdyRelayProxy.__init__: self.spdy_client = None; Proxy.__init__: not died
InitProxies ==
    /\ died = [p \in Proxies |-> FALSE]
    /\ spdy_client = [p \in Proxies |-> 0]
    /\ clients = <<>>
    /\ connect_pc = [p \in Proxies |-> "idle"]
    /\ last_connect = [p \in Proxies |-> "none"]
    /\ refresh_pc = 0
    /\ refresh_result = "none"
    /\ refresh_log = <<>>
    /\ refresh_failed = {}
    /\ refreshes = 0

\* DynamicProxy.__init__: delegated_to = None; no refresh was called yet
InitDynamic ==
    /\ delegated_to = [p \in DynamicProxies |-> None]
    /\ task = [p \in DynamicProxies |-> "none"]
    /\ answer = [p \in DynamicProxies |-> NoAnswer]
    /\ old_delegate = [p \in DynamicProxies |-> Named(None)]
    /\ dynamic_pc = "idle"
    /\ dynamic_refreshes = 0
    /\ last_op = [op |-> "none", proxy |-> 0, value |-> FALSE, result |-> "none"]

Init == InitTunnel /\ InitForwards /\ InitProxies /\ InitDynamic

\* ------------------------------------------------------ SpdyClient.send

\* send(frame) by task `by`: put_frame, outgoing, tls_conn.write
send(by, frame) ==
    sent' = Append(sent, [by |-> by, frame |-> frame])

\* tls_conn.write raises on a failed channel, and tls_conn is None on a
\* closed one
SendRaises == channel # "ok"

\* -------------------------------------------------- SpdyClient.loop

\* the settings branch assigning the entry's value whether or not the frame
\* carries the entry
WindowSizeAfterAny(frame) ==
    IF frame.type = "Settings" THEN frame.initial_window ELSE window_size

\* consume_frames, the settings branch: the window size after `frame`
WindowSizeAfter(frame) ==
    IF frame.type = "Settings" /\ frame.has_initial_window
    THEN frame.initial_window
    ELSE window_size

\* consume_frames, the data branch: current_window after `frame`
CurrentWindowAfter(frame) ==
    IF frame.type = "DataFrame"
    THEN current_window + frame.data
    ELSE current_window

\* LoopSends with a settings frame acknowledged by the loop as well
LoopSendsAck(frame) ==
    IF frame.type = "DataFrame"
       /\ CurrentWindowAfter(frame) >= WindowSizeAfter(frame) \div 2
    THEN <<WindowUpdate(frame.stream_id, WindowSizeAfter(frame))>>
    ELSE IF frame.type = "Settings" THEN <<Settings(0, FALSE)>> ELSE <<>>

\* consume_frames: the frames the loop sends while it drains `frame`
\* (Python 2: window_size / 2 of two ints is the floor)
LoopSends(frame) ==
    IF frame.type = "DataFrame"
       /\ CurrentWindowAfter(frame) >= WindowSizeAfter(frame) \div 2
    THEN <<WindowUpdate(frame.stream_id, WindowSizeAfter(frame))>>
    ELSE <<>>

\* put at the head of the queue instead of its tail
putFirst(sid, frame) ==
    /\ streams' = [streams EXCEPT ![sid] = <<frame>> \o @]
    /\ delivered' = [delivered EXCEPT ![sid] = <<frame.seq>> \o @]

\* put on a gevent.queue.Queue(maxsize=1): blocks while the queue is full
putBounded(sid, frame) ==
    /\ Len(streams[sid]) < 1
    /\ streams' = [streams EXCEPT ![sid] = Append(@, frame)]
    /\ delivered' = [delivered EXCEPT ![sid] = Append(@, frame.seq)]

\* self.streams[sid].put(frame) on an unbounded gevent.queue.Queue
put(sid, frame) ==
    /\ streams' = [streams EXCEPT ![sid] = Append(@, frame)]
    /\ delivered' = [delivered EXCEPT ![sid] = Append(@, frame.seq)]

\* loop's catch-all: the fault is logged and the greenlet ends
LoopFaults ==
    /\ loop' = "dead"
    /\ UNCHANGED <<streams, delivered>>

\* the peer writes one more frame, one of `frames`, to the channel
PeerSends(frames) ==
    /\ channel = "ok"
    /\ nframes < MaxFrames
    /\ \E frame \in frames :
        wire' = Append(wire, [frame EXCEPT !.seq = nframes + 1])
    /\ nframes' = nframes + 1
    /\ UNCHANGED <<window_size, current_window, streams, next_stream_id,
                   incoming, loop, channel, sent, decoded, delivered>>
    /\ UNCHANGED <<forwardVars, proxyVars, dynamicVars>>

\* select + tls_conn.read + spdy_context.incoming: one read decodes what has
\* arrived; the loop reads again only after consume_frames drained it
LoopRead ==
    /\ loop = "running"
    /\ channel = "ok"
    /\ incoming = <<>>
    /\ wire # <<>>
    /\ incoming' = wire
    /\ wire' = <<>>
    /\ UNCHANGED <<window_size, current_window, streams, next_stream_id,
                   nframes, loop, channel, sent, decoded, delivered>>
    /\ UNCHANGED <<forwardVars, proxyVars, dynamicVars>>

\* select or tls_conn.read raises on a failed or closed channel
LoopReadFails ==
    /\ loop = "running"
    /\ channel # "ok"
    /\ incoming = <<>>
    /\ loop' = "dead"
    /\ UNCHANGED <<window_size, current_window, streams, next_stream_id,
                   wire, incoming, nframes, channel, sent, decoded, delivered>>
    /\ UNCHANGED <<forwardVars, proxyVars, dynamicVars>>

\* history: the stream-open frame of stream sid was written to the channel
Opened(sid) ==
    \E i \in DOMAIN sent :
        sent[i].frame.type = "SynStream" /\ sent[i].frame.stream_id = sid

\* how consume_frames' turn for `frame` ends: the window-update's write
\* raises, self.streams[frame.stream_id] raises KeyError, or neither
Fault(frame) ==
    IF LoopSends(frame) # <<>> /\ SendRaises
    THEN "send"
    ELSE IF HasStreamId(frame) /\ frame.stream_id \notin DOMAIN streams
         THEN "KeyError"
         ELSE "none"

\* one turn of consume_frames' while loop
ConsumeFrame ==
    /\ loop = "running"
    /\ incoming # <<>>
    /\ LET frame == Head(incoming)
           out == LoopSends(frame)
       IN  /\ incoming' = Tail(incoming)
           /\ decoded' = Append(decoded,
                  [seq |-> frame.seq, type |-> frame.type,
                   stream_id |-> IF HasStreamId(frame)
                                 THEN frame.stream_id ELSE 0,
                   fault |-> Fault(frame),
                   opened |-> HasStreamId(frame) /\ Opened(frame.stream_id)])
           /\ window_size' = WindowSizeAfter(frame)
           /\ current_window' = CurrentWindowAfter(frame)
           /\ sent' = IF Fault(frame) = "send"
                      THEN sent
                      ELSE sent \o [i \in 1..Len(out) |->
                                      [by |-> "loop", frame |-> out[i]]]
           /\ IF Fault(frame) # "none"
              THEN LoopFaults
              ELSE /\ UNCHANGED loop
                   /\ IF HasStreamId(frame)
                      THEN put(frame.stream_id, frame)
                      ELSE UNCHANGED <<streams, delivered>>
    /\ UNCHANGED <<next_stream_id, wire, nframes, channel>>
    /\ UNCHANGED <<forwardVars, proxyVars, dynamicVars>>

\* the channel fails or the peer closes it
ChannelFails ==
    /\ channel = "ok"
    /\ channel' = "failed"
    /\ UNCHANGED <<window_size, current_window, streams, next_stream_id,
                   wire, incoming, nframes, loop, sent, decoded, delivered>>
    /\ UNCHANGED <<forwardVars, proxyVars, dynamicVars>>

\* SpdyClient.close, called by the proxy's connect() when it replaces this
\* client: tls_conn and sock are closed and set to None
Close ==
    /\ channel # "closed"
    /\ channel' = "closed"
    /\ UNCHANGED <<window_size, current_window, streams, next_stream_id,
                   wire, incoming, nframes, loop, sent, decoded, delivered>>
    /\ UNCHANGED <<forwardVars, proxyVars, dynamicVars>>

\* ------------------------------------------- SpdyRelayProxy.do_forward

\* client.fall_back(reason): the client abandons this upstream attempt
fall_back(f) ==
    fall_backs' = [fall_backs EXCEPT ![f] = @ + 1]

\* open_stream without line 35: no queue is made
registerNothing(sid) == UNCHANGED streams

\* self.streams[stream_id] = gevent.queue.Queue()
register(sid) ==
    streams' = [s \in DOMAIN streams \cup {sid} |->
                  IF s = sid THEN <<>> ELSE streams[s]]

\* do_forward up to open_stream's registration of the stream's queue
DoForward(f) ==
    /\ pc[f] = "idle"
    /\ \A g \in Forwards : g < f => pc[g] # "idle"
    /\ stream_id' = [stream_id EXCEPT ![f] = next_stream_id]
    /\ next_stream_id' = next_stream_id + 2
    /\ register(next_stream_id)
    /\ pc' = [pc EXCEPT ![f] = "open_stream"]
    /\ UNCHANGED <<window_size, current_window, wire, incoming, nframes,
                   loop, channel, sent, decoded, delivered>>
    /\ UNCHANGED <<remaining_bytes, forward_started, downstream, fall_backs,
                   timed_out, handled>>
    /\ UNCHANGED <<proxyVars, dynamicVars>>

\* open_stream's send of the stream-open frame, then remaining_bytes
OpenStreamSend(f) ==
    /\ pc[f] = "open_stream"
    /\ IF SendRaises
       THEN /\ pc' = [pc EXCEPT ![f] = "raised"]
            /\ UNCHANGED <<sent, remaining_bytes>>
       ELSE /\ send("forward", SynStream(stream_id[f]))
            /\ remaining_bytes' = [remaining_bytes EXCEPT ![f] = MaxInt]
            /\ pc' = [pc EXCEPT ![f] = "get"]
    /\ UNCHANGED <<window_size, current_window, streams, next_stream_id,
                   wire, incoming, nframes, loop, channel, decoded, delivered>>
    /\ UNCHANGED <<stream_id, forward_started, downstream, fall_backs,
                   timed_out, handled>>
    /\ UNCHANGED <<proxyVars, dynamicVars>>

\* on_syn_reply_frame taking the declared length whatever the status
on_syn_reply_frame_length(frame) ==
    IF frame.has_content_length THEN frame.content_length ELSE MaxInt

\* on_syn_reply_frame's result: the remaining bytes of the response
on_syn_reply_frame(frame) ==
    IF frame.status = "304"
    THEN 0
    ELSE IF frame.has_content_length THEN frame.content_length ELSE MaxInt

\* the while loop's condition once a frame was handled
AfterFrame(f, remaining) ==
    /\ remaining_bytes' = [remaining_bytes EXCEPT ![f] = remaining]
    /\ pc' = [pc EXCEPT ![f] = IF remaining > 0 THEN "get" ELSE "returned"]

\* stream.get(timeout=10) returns a frame, and the frame is handled
StreamGet(f) ==
    /\ pc[f] = "get"
    /\ streams[stream_id[f]] # <<>>
    /\ LET frame == Head(streams[stream_id[f]])
       IN  /\ streams' = [streams EXCEPT ![stream_id[f]] = Tail(@)]
           /\ handled' = [handled EXCEPT ![f] = Append(@, frame)]
           /\ CASE frame.type = "SynReply" /\ ~frame.pseudo ->
                     \* headers.pop(':version') raises KeyError
                     /\ pc' = [pc EXCEPT ![f] = "raised"]
                     /\ UNCHANGED <<remaining_bytes, forward_started,
                                    downstream>>
                [] frame.type = "SynReply" /\ frame.pseudo ->
                     /\ forward_started' = [forward_started EXCEPT ![f] = TRUE]
                     /\ downstream' = [downstream EXCEPT ![f] = @ + 1]
                     /\ AfterFrame(f, on_syn_reply_frame(frame))
                [] frame.type = "DataFrame" ->
                     /\ forward_started' = [forward_started EXCEPT ![f] = TRUE]
                     /\ downstream' = [downstream EXCEPT ![f] = @ + 1]
                     /\ AfterFrame(f, remaining_bytes[f] - frame.data)
                [] OTHER ->
                     \* unknown frame: logged
                     /\ AfterFrame(f, remaining_bytes[f])
                     /\ UNCHANGED <<forward_started, downstream>>
    /\ UNCHANGED <<window_size, current_window, next_stream_id, wire,
                   incoming, nframes, loop, channel, sent, decoded, delivered>>
    /\ UNCHANGED <<stream_id, fall_backs, timed_out>>
    /\ UNCHANGED <<proxyVars, dynamicVars>>

\* stream.get without a timeout: Empty is never raised
EmptyNever(f) == FALSE

\* stream.get(timeout=10) finds the queue empty for 10 s
Empty(f) == streams[stream_id[f]] = <<>>

\* the Empty branch raising whether or not forwarding has started
OnEmptyRaises(f) ==
    /\ pc' = [pc EXCEPT ![f] = "raised"]
    /\ UNCHANGED fall_backs

\* the Empty branch falling back whether or not forwarding has started
OnEmptyFallsBack(f) ==
    /\ fall_back(f)
    /\ pc' = [pc EXCEPT ![f] = "fell_back"]

\* the except gevent.queue.Empty branch
OnEmpty(f) ==
    IF forward_started[f]
    THEN /\ pc' = [pc EXCEPT ![f] = "raised"]
         /\ UNCHANGED fall_backs
    ELSE /\ fall_back(f)
         /\ pc' = [pc EXCEPT ![f] = "fell_back"]

\* stream.get(timeout=10) raises Empty: the queue stayed empty for 10 s
StreamTimeout(f) ==
    /\ pc[f] = "get"
    /\ Empty(f)
    /\ timed_out' = [timed_out EXCEPT ![f] = TRUE]
    /\ OnEmpty(f)
    /\ UNCHANGED tunnelVars
    /\ UNCHANGED <<stream_id, remaining_bytes, forward_started, downstream,
                   handled>>
    /\ UNCHANGED <<proxyVars, dynamicVars>>

\* the tunnel with every do_forward call sharing it
NextTunnel ==
    \/ PeerSends(DispatchFrames(StreamIds))
    \/ LoopRead
    \/ LoopReadFails
    \/ ConsumeFrame
    \/ ChannelFails
    \/ \E f \in Forwards : DoForward(f)
    \/ \E f \in Forwards : OpenStreamSend(f)
    \/ \E f \in Forwards : StreamGet(f)
    \/ \E f \in Forwards : StreamTimeout(f)

SpecTunnel == Init /\ [][NextTunnel]_vars

\* the tunnel with its first do_forward call and every kind of reply to it
NextForward ==
    \/ PeerSends(ReplyFrames({1}))
    \/ LoopRead
    \/ LoopReadFails
    \/ ConsumeFrame
    \/ ChannelFails
    \/ Close
    \/ DoForward(1)
    \/ OpenStreamSend(1)
    \/ StreamGet(1)
    \/ StreamTimeout(1)

SpecForward == Init /\ [][NextForward]_vars

\* SpecForward with the call's greenlet scheduled whenever it can run: the
\* write of open_stream returns or raises, and stream.get returns a frame or
\* raises Empty after its 10 seconds
SpecForwardFair ==
    /\ SpecForward
    /\ WF_vars(OpenStreamSend(1))
    /\ WF_vars(StreamGet(1) \/ StreamTimeout(1))

\* ------------------------------------ SpdyRelayProxy.connect, refresh

\* a SpdyClient whose constructor returned, owned by proxy p
NewClient(p, next_proto) ==
    [owner |-> p, sock |-> "open", tls_conn |-> "open",
     next_proto |-> next_proto, loop |-> "spawned"]

\* the channel of client c is open
IsOpen(c) == clients[c].sock = "open"

\* SpdyClient.__init__ raises: create_tcp_socket or handshakeClientCert
\* raises, or the assert on the negotiated protocol fails
ConstructorRaises(tcp_ok, handshake_ok, next_proto) ==
    \/ ~tcp_ok
    \/ ~handshake_ok
    \/ next_proto # "spdy/3"

\* SpdyClient.close: tls_conn.close() may raise (and does when tls_conn is
\* None), which skips tls_conn = None; then sock.close(), sock = None
ClientClose(c, tls_close_raises) ==
    [clients EXCEPT
        ![c].tls_conn = IF tls_close_raises \/ @ = "None" THEN @ ELSE "None",
        ![c].sock = "None"]

\* connect without closing the previous client
closeNothing(p, tls_close_raises) ==
    clients

\* SpdyRelayProxy.close: the clients after it
close(p, tls_close_raises) ==
    IF spdy_client[p] # 0
    THEN ClientClose(spdy_client[p], tls_close_raises)
    ELSE clients

\* connect returns to refresh's for loop
ConnectReturns(p) ==
    /\ connect_pc' = [connect_pc EXCEPT ![p] = "idle"]
    /\ refresh_pc' = p + 1
    /\ UNCHANGED refresh_result

\* connect without its try/except: the exception leaves refresh
ConnectExceptReraises(p) ==
    /\ connect_pc' = [connect_pc EXCEPT ![p] = "idle"]
    /\ refresh_pc' = 0
    /\ refresh_result' = "raised"
    /\ UNCHANGED died

\* connect's except branch: logged, self.died = True
ConnectExcept(p) ==
    /\ died' = [died EXCEPT ![p] = TRUE]
    /\ ConnectReturns(p)

\* refresh(proxies, ...) is called
Refresh ==
    /\ refresh_pc = 0
    /\ refreshes < MaxRefresh
    /\ refreshes' = refreshes + 1
    /\ refresh_pc' = 1
    /\ refresh_result' = "none"
    /\ refresh_log' = <<>>
    /\ refresh_failed' = {}
    /\ UNCHANGED <<died, spdy_client, clients, connect_pc, last_connect>>
    /\ UNCHANGED <<tunnelVars, forwardVars, dynamicVars>>

\* refresh's proxy.connect(), up to self.close()
Connect(p) ==
    /\ refresh_pc = p
    /\ connect_pc[p] = "idle"
    /\ refresh_log' = Append(refresh_log, p)
    /\ \E tls_close_raises \in BOOLEAN :
        clients' = close(p, tls_close_raises)
    /\ connect_pc' = [connect_pc EXCEPT ![p] = "construct"]
    /\ UNCHANGED <<died, spdy_client, last_connect, refresh_pc,
                   refresh_result, refresh_failed, refreshes>>
    /\ UNCHANGED <<tunnelVars, forwardVars, dynamicVars>>

\* connect's SpdyClient(ip, port) and gevent.spawn of its loop, or the
\* except branch
Construct(p) ==
    /\ refresh_pc = p
    /\ connect_pc[p] = "construct"
    /\ \E tcp_ok, handshake_ok \in BOOLEAN, next_proto \in {"spdy/3", "http/1.1"} :
        IF ConstructorRaises(tcp_ok, handshake_ok, next_proto)
        THEN /\ ConnectExcept(p)
             /\ last_connect' = [last_connect EXCEPT ![p] = "failed"]
             /\ refresh_failed' = refresh_failed \cup {p}
             /\ UNCHANGED <<spdy_client, clients>>
        ELSE /\ clients' = Append(clients, NewClient(p, next_proto))
             /\ spdy_client' = [spdy_client EXCEPT ![p] = Len(clients) + 1]
             /\ last_connect' = [last_connect EXCEPT ![p] = "ok"]
             /\ ConnectReturns(p)
             /\ UNCHANGED <<died, refresh_failed>>
    /\ UNCHANGED <<refresh_log, refreshes>>
    /\ UNCHANGED <<tunnelVars, forwardVars, dynamicVars>>

\* refresh's return True
RefreshReturns ==
    /\ refresh_pc = NumProxies + 1
    /\ refresh_pc' = 0
    /\ refresh_result' = "True"
    /\ UNCHANGED <<died, spdy_client, clients, connect_pc, last_connect,
                   refresh_log, refresh_failed, refreshes>>
    /\ UNCHANGED <<tunnelVars, forwardVars, dynamicVars>>

NextConnect ==
    \/ Refresh
    \/ \E p \in Proxies : Connect(p)
    \/ \E p \in Proxies : Construct(p)
    \/ RefreshReturns

SpecConnect == Init /\ [][NextConnect]_vars

\* the tunnel on a channel that stays healthy, the peer sending data and
\* reset frames on the streams
NextDispatch ==
    \/ PeerSends(RoutingFrames(StreamIds))
    \/ LoopRead
    \/ ConsumeFrame
    \/ \E f \in Forwards : DoForward(f)
    \/ \E f \in Forwards : OpenStreamSend(f)
    \/ \E f \in Forwards : StreamGet(f)
    \/ \E f \in Forwards : StreamTimeout(f)

\* the loop greenlet is scheduled whenever it can run; nothing makes a
\* do_forward call, or the peer, take another step
SpecDispatch ==
    /\ Init
    /\ [][NextDispatch]_vars
    /\ WF_vars(LoopRead \/ ConsumeFrame)

\* -------------------------------------------------------- resolve_proxy

\* ''.join(e for e in connection_info if e.isalnum() or e in [':', '.', '-'])
Sanitize(connection_info) ==
    SelectSeq(connection_info, LAMBDA e : isalnum(e) \/ e \in {":", ".", "-"})

\* s.split(sep): the pieces of s between the separators, empty pieces included
RECURSIVE split(_, _)
split(s, sep) ==
    IF \E i \in 1..Len(s) : s[i] = sep
    THEN LET i == CHOOSE k \in 1..Len(s) :
                      s[k] = sep /\ \A j \in 1..(k - 1) : s[j] # sep
         IN  <<SubSeq(s, 1, i - 1)>> \o split(SubSeq(s, i + 1, Len(s)), sep)
    ELSE <<s>>

\* the unpacking taking the first five of five or more pieces
UnpacksAny(fields) == Len(fields) >= 5

\* proxy_type, ip, port, username, password = ...: ValueError unless there
\* are exactly five pieces
Unpacks(fields) == Len(fields) = 5

\* the except branch leaving delegated_to as it was
ExceptKeeps(p) == delegated_to[p]

\* except: proxy.delegated_to = None
Except(p) == None

\* the try block from the parsed answer on: the value delegated_to gets
Resolve(p, a) ==
    IF a.kind # "txt"
    THEN Except(p)
    ELSE LET connection_info == Sanitize(a.rdata)
             fields == split(connection_info, ":")
         IN  IF ~Unpacks(fields)
             THEN Except(p)
             ELSE IF HttpConnectType # fields[1]
                  THEN Except(p)
                  ELSE HttpConnectProxy(fields[2], fields[3],
                                        NoCredential, NoCredential)

\* resolve_proxy up to sock.recv: the socket is made and the query is sent, or
\* one of the two raises and the except branch ends the greenlet
ResolveSend(p) ==
    /\ task[p] = "spawned"
    /\ \/ /\ task' = [task EXCEPT ![p] = "recv"]
          /\ UNCHANGED <<delegated_to, answer>>
       \/ /\ task' = [task EXCEPT ![p] = "done"]
          /\ answer' = [answer EXCEPT ![p] = [kind |-> "socket.error", rdata |-> <<>>]]
          /\ delegated_to' = [delegated_to EXCEPT ![p] = Except(p)]
    /\ UNCHANGED <<old_delegate, dynamic_pc, dynamic_refreshes, last_op>>
    /\ UNCHANGED <<tunnelVars, forwardVars, proxyVars>>

\* resolve_proxy from sock.recv to its end
ResolveRecv(p) ==
    /\ task[p] = "recv"
    /\ \E a \in Answers :
          /\ answer' = [answer EXCEPT ![p] = a]
          /\ delegated_to' = [delegated_to EXCEPT ![p] = Resolve(p, a)]
    /\ task' = [task EXCEPT ![p] = "done"]
    /\ UNCHANGED <<old_delegate, dynamic_pc, dynamic_refreshes, last_op>>
    /\ UNCHANGED <<tunnelVars, forwardVars, proxyVars>>

\* ------------------------------------------------------- DynamicProxy

\* `if self.delegated_to:`
Delegates(p) == delegated_to[p] # None

\* the died property, read
DynamicDied(p) == IF Delegates(p) THEN delegated_to[p].died ELSE FALSE

\* the died setter storing the value on the unresolved proxy too
DiedSetterKeeps(p, value) == [delegated_to[p] EXCEPT !.died = value]

\* the died property, assigned: the value delegated_to[p] has afterwards
DiedSetter(p, value) ==
    IF Delegates(p)
    THEN [delegated_to[p] EXCEPT !.died = value]
    ELSE delegated_to[p]

\* is_protocol_supported(protocol)
is_protocol_supported(p, protocol) ==
    IF Delegates(p) THEN DelegateSupports(delegated_to[p], protocol) ELSE FALSE

\* forward(client): handed to the delegate, or NotImplementedError
forward(p) == IF Delegates(p) THEN "delegated" ELSE "NotImplementedError"

\* proxy.died = value, by any greenlet
SetDied(p) ==
    /\ \E value \in BOOLEAN :
          /\ delegated_to' = [delegated_to EXCEPT ![p] = DiedSetter(p, value)]
          /\ last_op' = [op |-> "died", proxy |-> p, value |-> value, result |-> "none"]
    /\ UNCHANGED <<task, answer, old_delegate, dynamic_pc, dynamic_refreshes>>
    /\ UNCHANGED <<tunnelVars, forwardVars, proxyVars>>

\* proxy.forward(client), by any greenlet
Forward(p) ==
    /\ last_op' = [op |-> "forward", proxy |-> p, value |-> FALSE, result |-> forward(p)]
    /\ UNCHANGED <<delegated_to, task, answer, old_delegate, dynamic_pc,
                   dynamic_refreshes>>
    /\ UNCHANGED <<tunnelVars, forwardVars, proxyVars>>

\* refresh joining its first greenlet only
JoinedFirst == task[1] = "done"

\* `for greenlet in greenlets: greenlet.join()` has passed every greenlet
Joined == \A p \in DynamicProxies : task[p] = "done"

\* DynamicProxy.refresh, the spawn loop: one resolve_proxy greenlet each
DynamicRefresh ==
    /\ dynamic_pc # "joining"
    /\ dynamic_refreshes < MaxDynamicRefresh
    /\ dynamic_refreshes' = dynamic_refreshes + 1
    /\ task' = [p \in DynamicProxies |-> "spawned"]
    /\ answer' = [p \in DynamicProxies |-> NoAnswer]
    /\ old_delegate' = [p \in DynamicProxies |-> Named(delegated_to[p])]
    /\ dynamic_pc' = "joining"
    /\ UNCHANGED <<delegated_to, last_op>>
    /\ UNCHANGED <<tunnelVars, forwardVars, proxyVars>>

\* DynamicProxy.refresh, the join loop and the return
DynamicRefreshReturns ==
    /\ dynamic_pc = "joining"
    /\ Joined
    /\ dynamic_pc' = "returned"
    /\ UNCHANGED <<delegated_to, task, answer, old_delegate, dynamic_refreshes,
                   last_op>>
    /\ UNCHANGED <<tunnelVars, forwardVars, proxyVars>>

NextDynamic ==
    \/ DynamicRefresh
    \/ \E p \in DynamicProxies : ResolveSend(p)
    \/ \E p \in DynamicProxies : ResolveRecv(p)
    \/ DynamicRefreshReturns
    \/ \E p \in DynamicProxies : SetDied(p)
    \/ \E p \in DynamicProxies : Forward(p)

SpecDynamic == Init /\ [][NextDynamic]_vars

\* ---------------------------------------------------------------- claims

\* C1: a queue-wait timeout of do_forward with forward_started false calls
\* client.fall_back exactly once and ends the call there, without raising and
\* with nothing written to the client; no call falls back more than once.
C1_TimeoutBeforeResponseFallsBackOnce ==
    \A f \in Forwards :
        /\ fall_backs[f] <= 1
        /\ (timed_out[f] /\ ~forward_started[f]) =>
              /\ pc[f] = "fell_back"
              /\ fall_backs[f] = 1
              /\ downstream[f] = 0

\* C1's case: a call that ignored a frame, then timed out before any reply
C1_Witness ==
    \E f \in Forwards :
        /\ timed_out[f]
        /\ ~forward_started[f]
        /\ pc[f] = "fell_back"
        /\ \E i \in DOMAIN decoded : decoded[i].stream_id = stream_id[f]

\* C2: once forward_started is true a queue-wait timeout ends do_forward with
\* the exception raised to the caller, and client.fall_back is never called by
\* a call whose forwarding has started.
C2_TimeoutAfterForwardStartedRaises ==
    \A f \in Forwards :
        /\ forward_started[f] => fall_backs[f] = 0
        /\ (timed_out[f] /\ forward_started[f]) => pc[f] = "raised"

\* C2's case: a reply declared a content-length, part of it was written
\* through, then the queue wait timed out
C2_Witness ==
    \E f \in Forwards :
        /\ timed_out[f]
        /\ forward_started[f]
        /\ downstream[f] = 2
        /\ remaining_bytes[f] = 16384
        /\ pc[f] = "raised"

\* C3: after every data frame the loop has processed, current_window is below
\* half of window_size (a window-update resets it to 0).
C3_WindowResetByUpdate ==
    (/\ decoded # <<>>
     /\ decoded[Len(decoded)].type = "DataFrame"
     /\ decoded[Len(decoded)].fault = "none")
        => current_window < window_size \div 2

\* C4 as stated: the dispatch loop never calls send.
C4_LoopNeverSends ==
    \A i \in DOMAIN sent : sent[i].by # "loop"

\* C4: send is called by the forwarding path, for stream-open frames of streams
\* do_forward registered, and by the dispatch loop, for window-update frames
\* only, at most one per data frame drained, each sized to window_size.
C4_LoopSendsOnlyWindowUpdates ==
    /\ \A i \in DOMAIN sent :
        /\ sent[i].by = "forward" =>
              /\ sent[i].frame.type = "SynStream"
              /\ \E f \in Forwards :
                    /\ stream_id[f] = sent[i].frame.stream_id
                    /\ pc[f] \notin {"idle", "open_stream"}
        /\ sent[i].by = "loop" =>
              /\ sent[i].frame.type = "WindowUpdate"
              /\ sent[i].frame.data \in {InitialWindowSize} \cup SettingsWindows
    /\ Cardinality({i \in DOMAIN sent : sent[i].by = "loop"})
          <= Cardinality({i \in DOMAIN decoded : decoded[i].type = "DataFrame"})

\* C4's case: the loop wrote a window-update while a do_forward call was
\* between registering its stream and writing its stream-open frame
C4_Witness ==
    /\ sent # <<>>
    /\ sent[Len(sent)].by = "loop"
    /\ sent[Len(sent)].frame.type = "WindowUpdate"
    /\ \E f \in Forwards : pc[f] = "open_stream"

\* C5: the dispatch loop ends only when the channel has failed or closed.
C5_LoopEndsOnlyOnChannelFailure ==
    [][(loop = "running" /\ loop' = "dead") => channel # "ok"]_vars

\* the seq of the frames consume_frames got for stream s and dispatched
\* without a fault, in the order it got them
DecodedFor(s) ==
    LET mine == SelectSeq(decoded,
                    LAMBDA e : e.stream_id = s /\ e.fault = "none")
    IN  [i \in 1..Len(mine) |-> mine[i].seq]

IsSuffix(q, h) ==
    /\ Len(q) <= Len(h)
    /\ \A i \in 1..Len(q) : q[i] = h[Len(h) - Len(q) + i]

InFlight(k) ==
    \/ \E i \in DOMAIN wire : wire[i].seq = k
    \/ \E i \in DOMAIN incoming : incoming[i].seq = k

\* consume_frames got frame number k and, when the frame carries a stream id,
\* put it to that stream's queue
Dispatched(k) ==
    \E i \in DOMAIN decoded :
        /\ decoded[i].seq = k
        /\ decoded[i].stream_id # 0 =>
              \E j \in DOMAIN delivered[decoded[i].stream_id] :
                  delivered[decoded[i].stream_id][j] = k

\* C7: the loop never waits for a stream's consumer: every frame the peer
\* sent is dispatched to its queue, however long the queues have grown and
\* whether or not a do_forward call still drains them, unless the loop has
\* ended by a fault.
C7_DispatchNeverWaitsForConsumer ==
    \A k \in 1..MaxFrames :
        InFlight(k) ~> (Dispatched(k) \/ loop = "dead")

\* C7's case: a frame was put behind an undrained frame of a stream whose
\* do_forward call has given up, and a later frame reached another stream
C7_Witness ==
    \E f, g \in Forwards :
        /\ pc[f] \in {"fell_back", "raised"}
        /\ streams[stream_id[f]] # <<>>
        /\ pc[g] = "get"
        /\ delivered[stream_id[g]] # <<>>
        /\ delivered[stream_id[g]][1] > streams[stream_id[f]][1].seq

\* C8: after a connect() that succeeded the proxy is not dead.
C8_AliveAfterSuccessfulConnect ==
    \A p \in Proxies : last_connect[p] = "ok" => ~died[p]

\* the clients proxy p constructed whose channel is open
OpenClients(p) ==
    {c \in DOMAIN clients : clients[c].owner = p /\ IsOpen(c)}

\* C9: at most one client of a proxy is open at any time, none while connect
\* is between its close and the construction of the next client, and
\* proxy.spdy_client is None or a client whose handshake succeeded with
\* spdy/3 negotiated; the open client, if any, is the one it references.
C9_AtMostOneOpenClient ==
    \A p \in Proxies :
        /\ Cardinality(OpenClients(p)) <= 1
        /\ connect_pc[p] = "construct" => OpenClients(p) = {}
        /\ OpenClients(p) \subseteq {spdy_client[p]}
        /\ spdy_client[p] # 0 =>
              /\ spdy_client[p] \in DOMAIN clients
              /\ clients[spdy_client[p]].owner = p
              /\ clients[spdy_client[p]].next_proto = "spdy/3"

\* C9's case: a proxy's second client is open, its first one closed
C9_Witness ==
    \E p \in Proxies : \E c \in DOMAIN clients :
        /\ clients[c].owner = p
        /\ ~IsOpen(c)
        /\ spdy_client[p] # 0
        /\ spdy_client[p] # c
        /\ IsOpen(spdy_client[p])

\* C10: refresh calls connect() on the instances in list order, never raises
\* and returns True once connect() was called on every instance; each
\* instance whose connect() failed during the call is marked died.
C10_RefreshConnectsAllAndReturnsTrue ==
    /\ refresh_result # "raised"
    /\ \A i \in DOMAIN refresh_log : refresh_log[i] = i
    /\ refresh_result = "True" => Len(refresh_log) = NumProxies
    /\ \A p \in refresh_failed : died[p]

\* C10's case: the first instance's connect() failed, the last one's
\* succeeded afterwards, and refresh returned True
C10_Witness ==
    /\ refresh_result = "True"
    /\ 1 \in refresh_failed
    /\ last_connect[NumProxies] = "ok"
    /\ NumProxies \notin refresh_failed

\* the characters the sanitizer keeps, [A-Za-z0-9:.-]
Kept(e) == e \in AlnumUnits \cup {":", ".", "-"}

\* the positions of s that hold a kept character of its n-th ':'-delimited field
FieldPositions(s, n) ==
    { i \in 1..Len(s) :
        /\ Kept(s[i])
        /\ s[i] # ":"
        /\ Cardinality({j \in 1..(i - 1) : s[j] = ":"}) = n - 1 }

\* the n-th field of the sanitized connection string
FieldOf(s, n) ==
    LET idx == FieldPositions(s, n)
    IN  [k \in 1..Cardinality(idx) |->
            s[CHOOSE i \in idx : Cardinality({j \in idx : j <= i}) = k]]

\* the sanitized string has exactly five fields, the first the supported type
WellFormed(s) ==
    /\ Cardinality({j \in 1..Len(s) : s[j] = ":"}) = 4
    /\ FieldOf(s, 1) = <<"http", "-", "connect">>

\* proxy p's resolution succeeded: its answer names a proxy
Succeeded(p) == answer[p].kind = "txt" /\ WellFormed(answer[p].rdata)

\* C11: DynamicProxy.refresh starts one resolve_proxy task per instance and
\* returns only when all of them have finished, whatever failed; on return
\* the instances whose resolution succeeded hold a delegate and the others
\* hold none
C11_RefreshJoinsEveryResolution ==
    /\ dynamic_pc = "joining" =>
          \A p \in DynamicProxies : task[p] \in {"spawned", "recv", "done"}
    /\ dynamic_pc = "returned" =>
          \A p \in DynamicProxies :
              /\ task[p] = "done"
              /\ delegated_to[p].kind # "None" <=> Succeeded(p)

\* C11's case: refresh has returned, the first resolution timed out and the
\* second bound a delegate
C11_Witness ==
    /\ dynamic_pc = "returned"
    /\ answer[1].kind = "timeout"
    /\ delegated_to[1].kind = "None"
    /\ answer[2].kind = "txt"
    /\ delegated_to[2].kind = "HttpConnectProxy"

\* C12: a DynamicProxy without a delegate reads died as False, keeps no write
\* to died, fails forward with NotImplementedError and supports no protocol;
\* one with a delegate reads and writes the delegate's died, hands forward to
\* the delegate and supports what the delegate supports
C12_UnresolvedDefaultsElseDefers ==
    /\ [](\A p \in DynamicProxies :
            IF delegated_to[p].kind = "None"
            THEN /\ delegated_to[p] = None
                 /\ DynamicDied(p) = FALSE
                 /\ forward(p) = "NotImplementedError"
                 /\ \A protocol \in Protocols : ~is_protocol_supported(p, protocol)
            ELSE /\ DynamicDied(p) = delegated_to[p].died
                 /\ forward(p) = "delegated"
                 /\ \A protocol \in Protocols :
                        is_protocol_supported(p, protocol)
                            = DelegateSupports(delegated_to[p], protocol))
    /\ [][\A p \in DynamicProxies :
            /\ (last_op' # last_op /\ last_op'.proxy = p /\ last_op'.op = "died") =>
                  IF delegated_to[p].kind = "None"
                  THEN delegated_to'[p] = None
                  ELSE delegated_to'[p] = [delegated_to[p] EXCEPT !.died = last_op'.value]
            /\ (last_op' # last_op /\ last_op'.proxy = p /\ last_op'.op = "forward") =>
                  /\ delegated_to'[p] = delegated_to[p]
                  /\ last_op'.result =
                        IF delegated_to[p].kind = "None"
                        THEN "NotImplementedError"
                        ELSE "delegated"]_vars

\* C12's case: True was just assigned to the died of a proxy without a
\* delegate, and the other proxy reads the True assigned to its delegate
C12_Witness ==
    \E p, q \in DynamicProxies :
        /\ last_op.op = "died"
        /\ last_op.proxy = p
        /\ last_op.value = TRUE
        /\ delegated_to[p].kind = "None"
        /\ delegated_to[q].kind = "HttpConnectProxy"
        /\ delegated_to[q].died = TRUE

\* C13: a finished resolution has bound a delegate exactly if the sanitized
\* TXT payload has five ':'-delimited fields of which the first is the
\* supported type, and the delegate's host and port are the second and third
\* field; after any other answer, a timeout or a socket error the proxy is
\* unresolved, and the greenlet has ended without raising
C13_BindsExactlyWellFormedRecords ==
    \A p \in DynamicProxies :
        /\ task[p] \in {"none", "spawned", "recv", "done"}
        /\ task[p] = "done" =>
              /\ delegated_to[p].kind # "None" <=> Succeeded(p)
              /\ delegated_to[p].kind # "None" =>
                    /\ delegated_to[p].proxy_ip = FieldOf(answer[p].rdata, 2)
                    /\ delegated_to[p].proxy_port = FieldOf(answer[p].rdata, 3)

\* C13's case: one resolution bound the proxy of a record that came with
\* characters the sanitizer drops, the other got six fields and bound nothing
C13_Witness ==
    \E p, q \in DynamicProxies :
        /\ task[p] = "done"
        /\ answer[p].kind = "txt"
        /\ \E i \in 1..Len(answer[p].rdata) : ~Kept(answer[p].rdata[i])
        /\ delegated_to[p].kind = "HttpConnectProxy"
        /\ delegated_to[p].proxy_ip = <<"10", ".", "1">>
        /\ task[q] = "done"
        /\ answer[q].kind = "txt"
        /\ Cardinality({j \in 1..Len(answer[q].rdata) : answer[q].rdata[j] = ":"}) = 5
        /\ delegated_to[q].kind = "None"

\* C14: the delegate a successful resolution has bound carries the record's
\* credentials: its username and password are the fourth and fifth field
\* where these are not empty
C14_DelegateCarriesCredentials ==
    \A p \in DynamicProxies :
        (task[p] = "done" /\ delegated_to[p].kind # "None") =>
            /\ FieldOf(answer[p].rdata, 4) # <<>> =>
                  delegated_to[p].username = FieldOf(answer[p].rdata, 4)
            /\ FieldOf(answer[p].rdata, 5) # <<>> =>
                  delegated_to[p].password = FieldOf(answer[p].rdata, 5)

\* C19: while a refresh runs, delegated_to names the proxy it named when the
\* refresh began until the proxy's resolution ends, and from then on the newly
\* resolved proxy or none; a failed resolution leaves none, also where there
\* was a delegate, and the proxy then is alive, supports nothing and does not
\* forward
C19_FailedResolutionRemovesDelegate ==
    \A p \in DynamicProxies :
        /\ task[p] \in {"spawned", "recv"} =>
              Named(delegated_to[p]) = old_delegate[p]
        /\ task[p] = "done" =>
              IF Succeeded(p)
              THEN Named(delegated_to[p])
                      = <<"HttpConnectProxy", FieldOf(answer[p].rdata, 2),
                          FieldOf(answer[p].rdata, 3)>>
              ELSE /\ delegated_to[p] = None
                   /\ DynamicDied(p) = FALSE
                   /\ forward(p) = "NotImplementedError"
                   /\ \A protocol \in Protocols : ~is_protocol_supported(p, protocol)

\* C19's case: a proxy that had a delegate when the refresh began has none
\* after its resolution timed out, and a forward on it has failed since
C19_Witness ==
    \E p \in DynamicProxies :
        /\ old_delegate[p][1] = "HttpConnectProxy"
        /\ task[p] = "done"
        /\ answer[p].kind = "timeout"
        /\ delegated_to[p] = None
        /\ last_op.op = "forward"
        /\ last_op.proxy = p
        /\ last_op.result = "NotImplementedError"

\* the frame ends its stream: FLAG_FIN, or a reset
IsTerminal(frame) == frame.fin \/ frame.type = "RstStream"

\* the frame is a reply with its pseudo-headers and without content-length,
\* its status not 304
IsOpenEndedReply(frame) ==
    /\ frame.type = "SynReply"
    /\ frame.pseudo
    /\ frame.status # "304"
    /\ ~frame.has_content_length

\* C15: a do_forward call that got a reply without content-length and then
\* the terminal frame of its stream has returned normally
C15_StreamEndCompletesCall ==
    \A f \in Forwards :
        (\E i, j \in DOMAIN handled[f] :
            /\ i < j
            /\ IsOpenEndedReply(handled[f][i])
            /\ IsTerminal(handled[f][j])) => pc[f] = "returned"

\* the frame is a reply with its pseudo-headers and status 304
IsNotModified(frame) ==
    frame.type = "SynReply" /\ frame.pseudo /\ frame.status = "304"

\* C16: a 304 reply is the last frame its do_forward call gets: the call has
\* returned with no bytes remaining, without a timeout, whatever
\* content-length the reply declares
C16_NotModifiedEndsCall ==
    \A f \in Forwards : \A i \in DOMAIN handled[f] :
        IsNotModified(handled[f][i]) =>
            /\ i = Len(handled[f])
            /\ pc[f] = "returned"
            /\ remaining_bytes[f] = 0
            /\ ~timed_out[f]
            /\ forward_started[f]

\* C16's case: the call returned on a 304 reply that declares a
\* content-length, and a later frame of the stream stays in the queue
C16_Witness ==
    \E f \in Forwards :
        /\ handled[f] # <<>>
        /\ IsNotModified(handled[f][Len(handled[f])])
        /\ handled[f][Len(handled[f])].has_content_length
        /\ pc[f] = "returned"
        /\ streams[stream_id[f]] # <<>>

\* C17: a step changes window_size only if it is the loop's turn for a
\* settings frame with an initial-window-size entry, whose value it assigns;
\* no step of open_stream, send or close and no turn for another frame does
C17_WindowSizeChangesOnlyBySettings ==
    [][window_size' # window_size =>
          /\ loop = "running"
          /\ incoming # <<>>
          /\ Head(incoming).type = "Settings"
          /\ Head(incoming).has_initial_window
          /\ window_size' = Head(incoming).initial_window
          /\ incoming' = Tail(incoming)
          /\ <<pc, sent, channel>> = <<pc', sent', channel'>>]_vars

\* C17's case: a settings frame has changed the window size, and a stream
\* was opened, a data frame was drained and the client was closed
C17_Witness ==
    /\ window_size # InitialWindowSize
    /\ Opened(1)
    /\ \E i \in DOMAIN decoded : decoded[i].type = "DataFrame"
    /\ \E i \in DOMAIN decoded : decoded[i].type = "Settings"
    /\ channel = "closed"

\* C18: a do_forward call that has begun ends: it returns, falls back or
\* raises
C18_ForwardTerminates ==
    (pc[1] \in {"open_stream", "get"})
        ~> (pc[1] \in {"returned", "fell_back", "raised"})

\* C18's case: the call ended on a timeout after it had got a frame, the
\* loop dead and the client closed
C18_Witness ==
    /\ pc[1] \in {"fell_back", "raised"}
    /\ timed_out[1]
    /\ handled[1] # <<>>
    /\ loop = "dead"
    /\ channel = "closed"

\* C20: a stream whose stream-open frame was sent, and the stream of every
\* call that has entered open_stream, has its queue; no frame that followed
\* its stream-open frame found the queue missing; and no step removes an
\* entry of streams
C20_QueueRegisteredBeforeOpen ==
    /\ [](/\ \A i \in DOMAIN sent :
               sent[i].frame.type = "SynStream" =>
                   sent[i].frame.stream_id \in DOMAIN streams
          /\ \A f \in Forwards :
               pc[f] # "idle" => stream_id[f] \in DOMAIN streams
          /\ \A i \in DOMAIN decoded :
               decoded[i].fault = "KeyError" => ~decoded[i].opened)
    /\ [][DOMAIN streams \subseteq DOMAIN streams']_vars

\* C20's case: one call gave up with a frame left in its queue, the other
\* failed to send its stream-open frame, and both queues are registered
C20_Witness ==
    \E f, g \in Forwards :
        /\ pc[f] = "fell_back"
        /\ streams[stream_id[f]] # <<>>
        /\ pc[g] = "raised"
        /\ ~Opened(stream_id[g])
        /\ stream_id[g] \in DOMAIN streams

====
